---- MODULE Spec2Model ----
(***************************************************************************)
(* Model of fps_ticker (src/src/lib.rs): the Fps rate tracker, its bounded  *)
(* window of inter-tick durations and the three cached f64 statistics.      *)
(*                                                                          *)
(* Durations and instants are whole nanoseconds.  The statistics are IEEE   *)
(* 754 binary64 values; the arithmetic below is the round-to-nearest-even   *)
(* arithmetic of f64 on non-negative operands, carried out on a 53-bit      *)
(* significand held in two limbs so that no intermediate exceeds 2^31.      *)
(***************************************************************************)
EXTENDS Integers, Sequences, FiniteSets

(***************************************************************************)
(* Bounds of the exploration.                                               *)
(***************************************************************************)
MaxCap == 3
MaxTicks == 4
MaxClock == 7
MaxIters == 2

(***************************************************************************)
(* Program and library constants.                                           *)
(***************************************************************************)
DEFAULT_WINDOW_LEN == 60
NANOS_PER_SEC == 1000000000

\* One step of the clock: 50 ms, the granularity at which Instant::now()
\* is sampled in this exploration.
Quantum == NANOS_PER_SEC \div 20

(***************************************************************************)
(* Two-limb naturals: <<hi, lo>> stands for hi * 2^27 + lo, 0 <= lo < 2^27. *)
(* Every value handled below is less than 2^58, so hi < 2^31.               *)
(***************************************************************************)
LimbBits == 27
LimbBase == 2 ^ LimbBits

BigOf(n) == <<n \div LimbBase, n % LimbBase>>

BigIsZero(a) == a[1] = 0 /\ a[2] = 0

BigLt(a, b) == a[1] < b[1] \/ (a[1] = b[1] /\ a[2] < b[2])

BigAdd(a, b) ==
    LET lo == a[2] + b[2]
    IN  <<a[1] + b[1] + (lo \div LimbBase), lo % LimbBase>>

\* a - b, for a >= b
BigSub(a, b) ==
    IF a[2] >= b[2] THEN <<a[1] - b[1], a[2] - b[2]>>
    ELSE <<a[1] - b[1] - 1, a[2] + LimbBase - b[2]>>

\* a * 2^n, for 0 <= n <= 4
BigShl(a, n) ==
    LET lo == (2 ^ n) * a[2]
    IN  <<(2 ^ n) * a[1] + (lo \div LimbBase), lo % LimbBase>>

\* a \div 2^n, for n >= 0
BigShr(a, n) ==
    IF n = 0 THEN a
    ELSE IF n < LimbBits
    THEN <<a[1] \div (2 ^ n),
           (a[1] % (2 ^ n)) * (2 ^ (LimbBits - n)) + (a[2] \div (2 ^ n))>>
    ELSE IF n < 2 * LimbBits + 4
    THEN <<0, a[1] \div (2 ^ (n - LimbBits))>>
    ELSE <<0, 0>>

\* whether a % 2^n is non-zero, for n >= 0
BigLowBits(a, n) ==
    IF n = 0 THEN FALSE
    ELSE IF n < LimbBits THEN a[2] % (2 ^ n) # 0
    ELSE IF n < 2 * LimbBits + 4
    THEN a[2] # 0 \/ a[1] % (2 ^ (n - LimbBits)) # 0
    ELSE ~BigIsZero(a)

BigOdd(a) == a[2] % 2 = 1

BigInc(a) == BigAdd(a, <<0, 1>>)

(***************************************************************************)
(* f64 values, non-negative: zero, a normal number m * 2^e with             *)
(* 2^52 <= m < 2^53, +infinity, NaN.  A value has one representation, so    *)
(* equality of representations is equality of finite f64 values.  The       *)
(* operands met here are 0, integers below 2^31, seconds of durations       *)
(* below 2^31 ns and their sums, means and reciprocals: none is negative,   *)
(* subnormal or beyond the largest finite f64.  The sign of a zero is not   *)
(* kept: it changes none of the results (0.0 / 0.0 and -0.0 / 0.0 are both  *)
(* NaN, and -0.0 + x is x for the x >= +0.0 that are summed).               *)
(***************************************************************************)
MANTISSA_DIGITS == 53

\* 2^52 and 2^53 as two-limb naturals: the range of a normal significand.
MantLow == <<2 ^ (MANTISSA_DIGITS - 1 - LimbBits), 0>>
MantHigh == <<2 ^ (MANTISSA_DIGITS - LimbBits), 0>>

FZero == [k |-> "zero"]
FInf == [k |-> "inf"]
FNaN == [k |-> "nan"]

FFin(m, e) == [k |-> "fin", m |-> m, e |-> e]

\* Round q * 2^e, 2^52 <= q < 2^58, to a 53-bit significand, ties to even;
\* `sticky` tells that q itself is a truncation of a larger exact value.
FRound(q, e, sticky) ==
    LET s == CHOOSE n \in 0..5 :
                 /\ q[1] \div (2 ^ n) >= MantLow[1]
                 /\ q[1] \div (2 ^ n) < MantHigh[1]
        m == BigShr(q, s)
        half == s > 0 /\ BigOdd(BigShr(q, s - 1))
        rest == sticky \/ (s > 1 /\ BigLowBits(q, s - 1))
        up == BigInc(m)
    IN  IF half /\ (rest \/ BigOdd(m))
        THEN IF BigLt(up, MantHigh) THEN FFin(up, e + s)
             ELSE FFin(MantLow, e + s + 1)
        ELSE FFin(m, e + s)

\* `n as f64` for an integer 0 <= n < 2^31 (exact).
FromNat(n) ==
    IF n = 0 THEN FZero
    ELSE LET len == CHOOSE l \in 1..31 : 2 ^ (l - 1) <= n /\ (l = 31 \/ n < 2 ^ l)
             s == MANTISSA_DIGITS - len
         IN  IF s >= LimbBits
             THEN FFin(<<n * (2 ^ (s - LimbBits)), 0>>, -s)
             ELSE FFin(<<n \div (2 ^ (LimbBits - s)),
                         (n % (2 ^ (LimbBits - s))) * (2 ^ s)>>, -s)

\* Long division r / d (r < d), four quotient bits at a time: `steps`
\* hexadecimal digits are appended to q; <<quotient, remainder>>.
RECURSIVE LongDiv(_, _, _, _)
LongDiv(r, d, q, steps) ==
    IF steps = 0 THEN <<q, r>>
    ELSE LET r4 == BigShl(r, 4)
             b3 == IF BigLt(r4, BigShl(d, 3)) THEN 0 ELSE 1
             r3 == IF b3 = 1 THEN BigSub(r4, BigShl(d, 3)) ELSE r4
             b2 == IF BigLt(r3, BigShl(d, 2)) THEN 0 ELSE 1
             r2 == IF b2 = 1 THEN BigSub(r3, BigShl(d, 2)) ELSE r3
             b1 == IF BigLt(r2, BigShl(d, 1)) THEN 0 ELSE 1
             r1 == IF b1 = 1 THEN BigSub(r2, BigShl(d, 1)) ELSE r2
             b0 == IF BigLt(r1, d) THEN 0 ELSE 1
             r0 == IF b0 = 1 THEN BigSub(r1, d) ELSE r1
             q4 == BigAdd(BigShl(q, 4), <<0, 8 * b3 + 4 * b2 + 2 * b1 + b0>>)
         IN  LongDiv(r0, d, q4, steps - 1)

DivSteps == 14

\* a / b in f64.
FDiv(a, b) ==
    IF a.k = "nan" \/ b.k = "nan" THEN FNaN
    ELSE IF a.k = "inf" THEN (IF b.k = "inf" THEN FNaN ELSE FInf)
    ELSE IF b.k = "inf" THEN FZero
    ELSE IF b.k = "zero" THEN (IF a.k = "zero" THEN FNaN ELSE FInf)
    ELSE IF a.k = "zero" THEN FZero
    ELSE LET lead == IF BigLt(a.m, b.m) THEN 0 ELSE 1
             r0 == IF lead = 1 THEN BigSub(a.m, b.m) ELSE a.m
             qr == LongDiv(r0, b.m, <<0, lead>>, DivSteps)
         IN  FRound(qr[1], a.e - b.e - 4 * DivSteps, ~BigIsZero(qr[2]))

\* a + b in f64 (non-negative operands).
FAdd(a, b) ==
    IF a.k = "nan" \/ b.k = "nan" THEN FNaN
    ELSE IF a.k = "inf" \/ b.k = "inf" THEN FInf
    ELSE IF a.k = "zero" THEN b
    ELSE IF b.k = "zero" THEN a
    ELSE LET hi == IF a.e >= b.e THEN a ELSE b
             lo == IF a.e >= b.e THEN b ELSE a
             x == BigShl(hi.m, 2)
             y == BigShl(lo.m, 2)
             n == hi.e - lo.e
         IN  FRound(BigAdd(x, BigShr(y, n)), hi.e - 2, BigLowBits(y, n))

\* a < b and a <= b in f64 (false when either side is NaN).
FLt(a, b) ==
    IF a.k = "nan" \/ b.k = "nan" THEN FALSE
    ELSE IF a.k = "inf" THEN FALSE
    ELSE IF b.k = "inf" THEN TRUE
    ELSE IF b.k = "zero" THEN FALSE
    ELSE IF a.k = "zero" THEN TRUE
    ELSE a.e < b.e \/ (a.e = b.e /\ BigLt(a.m, b.m))

FEq(a, b) == a.k # "nan" /\ b.k # "nan" /\ a = b

FLe(a, b) == FLt(a, b) \/ FEq(a, b)

\* Duration::as_secs_f64: secs as f64 + nanos as f64 / 1e9.
as_secs_f64(d) ==
    FAdd(FromNat(d \div NANOS_PER_SEC),
         FDiv(FromNat(d % NANOS_PER_SEC), FromNat(NANOS_PER_SEC)))

(***************************************************************************)
(* Inner: the statistics, computed from the window as the code does.        *)
(***************************************************************************)
\* self.window.iter().map(|d| d.as_secs_f64()).sum::<f64>(), front to back
RECURSIVE sum_secs(_)
sum_secs(w) ==
    IF w = <<>> THEN FZero
    ELSE FAdd(sum_secs(SubSeq(w, 1, Len(w) - 1)), as_secs_f64(w[Len(w)]))

None == [some |-> FALSE]
Some(d) == [some |-> TRUE, val |-> d]

\* iter_max, taking the front element for the largest
iter_max_first(w) == IF w = <<>> THEN None ELSE Some(w[1])

\* Iterator::max over the window: None when empty
RECURSIVE iter_max(_)
iter_max(w) ==
    IF w = <<>> THEN None
    ELSE LET rest == iter_max(SubSeq(w, 1, Len(w) - 1))
             x == w[Len(w)]
         IN  IF rest.some /\ rest.val > x THEN rest ELSE Some(x)

\* Iterator::min over the window: None when empty
RECURSIVE iter_min(_)
iter_min(w) ==
    IF w = <<>> THEN None
    ELSE LET rest == iter_min(SubSeq(w, 1, Len(w) - 1))
             x == w[Len(w)]
         IN  IF rest.some /\ rest.val <= x THEN rest ELSE Some(x)

\* Option::map(|d| d.as_secs_f64()).unwrap_or(0.0)
secs_or_zero(o) == IF o.some THEN as_secs_f64(o.val) ELSE FZero

\* calc_avg without the final inversion: the mean period, not the rate
calc_avg_period(w) == FDiv(sum_secs(w), FromNat(Len(w)))

calc_avg(w) == FDiv(FromNat(1), FDiv(sum_secs(w), FromNat(Len(w))))

calc_min(w) == FDiv(FromNat(1), secs_or_zero(iter_max(w)))

calc_max(w) == FDiv(FromNat(1), secs_or_zero(iter_min(w)))

(***************************************************************************)
(* Fps: the tracker.                                                        *)
(***************************************************************************)
VARIABLES
    window_len,  \* Fps.window_len
    window,      \* Inner.window, front first, durations in nanoseconds
    last,        \* Inner.last, an instant in nanoseconds
    avg,         \* Inner.avg
    min,         \* Inner.min
    max,         \* Inner.max
    borrow,      \* the RefCell's borrow flag: 0 unused, -1 mutably borrowed
    pc,          \* where the running tick stands, "idle" when none runs
    delta,       \* the local `delta` of the running tick
    iters,       \* iterations of the eviction loop in the running tick
    nticks,      \* ticks completed since construction
    hist,        \* the deltas measured by the ticks begun, in order
    ret,         \* what the last accessor call since the last tick returned
    reads,       \* the clock readings taken by the ticks begun, in order
    twin         \* the fields of a second tracker, when two are compared

vars == <<window_len, window, last, avg, min, max, borrow, pc, delta, iters,
          nticks, hist, ret, reads, twin>>

\* The instant at which the tracker is constructed.
Created == 0

\* duration_since measuring from `later` back to `earlier`
duration_since_swapped(later, earlier) ==
    IF earlier >= later THEN earlier - later ELSE 0

\* Instant::duration_since: the elapsed time, zero if `earlier` is later.
duration_since(later, earlier) == IF later >= earlier THEN later - earlier ELSE 0

\* pop_front emptying the deque
pop_front_all(w) == <<>>

\* pop_front removing the newest element instead of the oldest
pop_front_newest(w) == IF w = <<>> THEN w ELSE SubSeq(w, 1, Len(w) - 1)

\* VecDeque::pop_front: removes the front element, if any.
pop_front(w) == IF w = <<>> THEN w ELSE Tail(w)

\* VecDeque::push_back
push_back(w, d) == Append(w, d)

\* with_window_len starting the minimum at +infinity
with_window_len_inf(n) ==
    [window_len |-> n, window |-> <<>>, last |-> Created,
     avg |-> FZero, min |-> FInf, max |-> FZero]

\* Fps::with_window_len: the fields of the new tracker.
with_window_len(n) ==
    [window_len |-> n, window |-> <<>>, last |-> Created,
     avg |-> FZero, min |-> FZero, max |-> FZero]

\* default() building a tracker of another capacity
default_short == with_window_len(2)

\* impl Default for Fps
default == with_window_len(DEFAULT_WINDOW_LEN)

\* The trackers a caller may construct.
Constructed == {with_window_len(n) : n \in 0..MaxCap} \cup {default}

\* No second tracker is kept.
NoTwin == [n |-> -1]

\* No accessor has been called since the last tick.
NoRet == [op |-> "none", val |-> FZero]

Init ==
    \E f \in Constructed :
        /\ window_len = f.window_len
        /\ window = f.window
        /\ last = f.last
        /\ avg = f.avg
        /\ min = f.min
        /\ max = f.max
        /\ borrow = 0
        /\ pc = "idle"
        /\ delta = 0
        /\ iters = 0
        /\ nticks = 0
        /\ hist = <<>>
        /\ ret = NoRet
        /\ reads = <<>>
        /\ twin = NoTwin

\* The readings Instant::now() may return: the clock never runs backwards,
\* and it is sampled every Quantum nanoseconds.
Readings == {last + k * Quantum : k \in 0..MaxClock} \cap 0..(MaxClock * Quantum)

\* tick_begin without `inner.last = now`
tick_begin_keep_last ==
    /\ pc = "idle"
    /\ borrow = 0
    /\ nticks < MaxTicks
    /\ \E now \in Readings :
        /\ delta' = duration_since(now, last)
        /\ hist' = Append(hist, duration_since(now, last))
        /\ reads' = Append(reads, now)
    /\ borrow' = -1
    /\ iters' = 0
    /\ ret' = NoRet
    /\ pc' = "evict"
    /\ UNCHANGED <<window_len, window, last, avg, min, max, nticks, twin>>

\* tick, lines 93-96: read the clock, borrow the state, measure, remember.
tick_begin ==
    /\ pc = "idle"
    /\ borrow = 0
    /\ nticks < MaxTicks
    /\ \E now \in Readings :
        /\ delta' = duration_since(now, last)
        /\ last' = now
        /\ hist' = Append(hist, duration_since(now, last))
        /\ reads' = Append(reads, now)
    /\ borrow' = -1
    /\ iters' = 0
    /\ ret' = NoRet
    /\ pc' = "evict"
    /\ UNCHANGED <<window_len, window, avg, min, max, nticks, twin>>

\* tick_evict with the loop condition `window.len() > window_len`
tick_evict_late ==
    /\ pc = "evict"
    /\ IF Len(window) > window_len
       THEN /\ window' = pop_front(window)
            /\ iters' = IF iters < MaxIters THEN iters + 1 ELSE iters
            /\ pc' = "evict"
       ELSE /\ pc' = "push"
            /\ UNCHANGED <<window, iters>>
    /\ UNCHANGED <<window_len, last, avg, min, max, borrow, delta, nticks,
                   hist, ret, reads, twin>>

\* tick_evict with the loop condition `window.len() + 2 > window_len`
tick_evict_early ==
    /\ pc = "evict"
    /\ IF Len(window) + 2 > window_len
       THEN /\ window' = pop_front(window)
            /\ iters' = IF iters < MaxIters THEN iters + 1 ELSE iters
            /\ pc' = "evict"
       ELSE /\ pc' = "push"
            /\ UNCHANGED <<window, iters>>
    /\ UNCHANGED <<window_len, last, avg, min, max, borrow, delta, nticks,
                   hist, ret, reads, twin>>

\* tick, lines 97-99: one test of the loop condition, and one pop if it holds.
tick_evict ==
    /\ pc = "evict"
    /\ IF Len(window) + 1 > window_len
       THEN /\ window' = pop_front(window)
            /\ iters' = IF iters < MaxIters THEN iters + 1 ELSE iters
            /\ pc' = "evict"
       ELSE /\ pc' = "push"
            /\ UNCHANGED <<window, iters>>
    /\ UNCHANGED <<window_len, last, avg, min, max, borrow, delta, nticks,
                   hist, ret, reads, twin>>

\* tick_push dropping a zero duration instead of appending it
tick_push_nonzero ==
    /\ pc = "push"
    /\ window' = IF delta = 0 THEN window ELSE push_back(window, delta)
    /\ pc' = "avg"
    /\ UNCHANGED <<window_len, last, avg, min, max, borrow, delta, iters,
                   nticks, hist, ret, reads, twin>>

\* tick, line 100
tick_push ==
    /\ pc = "push"
    /\ window' = push_back(window, delta)
    /\ pc' = "avg"
    /\ UNCHANGED <<window_len, last, avg, min, max, borrow, delta, iters,
                   nticks, hist, ret, reads, twin>>

\* tick, line 101
tick_avg ==
    /\ pc = "avg"
    /\ avg' = calc_avg(window)
    /\ pc' = "min"
    /\ UNCHANGED <<window_len, window, last, min, max, borrow, delta, iters,
                   nticks, hist, ret, reads, twin>>

\* tick_min keeping the lowest rate seen since the first tick
tick_min_running ==
    /\ pc = "min"
    /\ min' = IF nticks > 0 /\ FLt(min, calc_min(window))
              THEN min
              ELSE calc_min(window)
    /\ pc' = "max"
    /\ UNCHANGED <<window_len, window, last, avg, max, borrow, delta, iters,
                   nticks, hist, ret, reads, twin>>

\* tick_min leaving the cached minimum as it was
tick_min_skipped ==
    /\ pc = "min"
    /\ pc' = "max"
    /\ UNCHANGED <<window_len, window, last, avg, min, max, borrow, delta,
                   iters, nticks, hist, ret, reads, twin>>

\* tick, line 102
tick_min ==
    /\ pc = "min"
    /\ min' = calc_min(window)
    /\ pc' = "max"
    /\ UNCHANGED <<window_len, window, last, avg, max, borrow, delta, iters,
                   nticks, hist, ret, reads, twin>>

\* tick_max returning with the exclusive borrow still held
tick_max_leak ==
    /\ pc = "max"
    /\ max' = calc_max(window)
    /\ nticks' = nticks + 1
    /\ pc' = "idle"
    /\ UNCHANGED <<window_len, window, last, avg, min, borrow, delta, iters,
                   hist, ret, reads, twin>>

\* tick, lines 103-104: the last statistic, then the borrow is dropped.
tick_max ==
    /\ pc = "max"
    /\ max' = calc_max(window)
    /\ borrow' = 0
    /\ nticks' = nticks + 1
    /\ pc' = "idle"
    /\ UNCHANGED <<window_len, window, last, avg, min, delta, iters, hist,
                   ret, reads, twin>>

\* Fps::avg: a read through a shared borrow that is taken and released
\* within the call.
Fps_avg ==
    /\ pc = "idle"
    /\ borrow >= 0
    /\ ret' = [op |-> "avg", val |-> avg]
    /\ UNCHANGED <<window_len, window, last, avg, min, max, borrow, pc, delta,
                   iters, nticks, hist, reads, twin>>

\* Fps::min
Fps_min ==
    /\ pc = "idle"
    /\ borrow >= 0
    /\ ret' = [op |-> "min", val |-> min]
    /\ UNCHANGED <<window_len, window, last, avg, min, max, borrow, pc, delta,
                   iters, nticks, hist, reads, twin>>

\* Fps::max that takes the cached value out of the cell, leaving 0.0
Fps_max_take ==
    /\ pc = "idle"
    /\ borrow >= 0
    /\ ret' = [op |-> "max", val |-> max]
    /\ max' = FZero
    /\ UNCHANGED <<window_len, window, last, avg, min, borrow, pc, delta,
                   iters, nticks, hist, reads, twin>>

\* Fps::max
Fps_max ==
    /\ pc = "idle"
    /\ borrow >= 0
    /\ ret' = [op |-> "max", val |-> max]
    /\ UNCHANGED <<window_len, window, last, avg, min, max, borrow, pc, delta,
                   iters, nticks, hist, reads, twin>>

Next ==
    \/ tick_begin
    \/ tick_evict
    \/ tick_push
    \/ tick_avg
    \/ tick_min
    \/ tick_max
    \/ Fps_avg
    \/ Fps_min
    \/ Fps_max

Spec == Init /\ [][Next]_vars

TypeOK ==
    /\ window_len \in 0..MaxCap \cup {DEFAULT_WINDOW_LEN}
    /\ pc \in {"idle", "evict", "push", "avg", "min", "max"}
    /\ borrow \in {0, -1}
    /\ nticks \in 0..MaxTicks
    /\ iters \in 0..MaxIters

(***************************************************************************)
(* The statistics applied to an arbitrary window: Inner::calc_avg,          *)
(* calc_min and calc_max are functions of the window alone, so they are     *)
(* also explored from every small window, the empty one included.           *)
(***************************************************************************)
RECURSIVE sum_nanos(_)
sum_nanos(w) == IF w = <<>> THEN 0 ELSE w[1] + sum_nanos(Tail(w))

Windows ==
    {w \in UNION {[1..n -> {k * Quantum : k \in 0..MaxClock}] : n \in 0..MaxCap} :
        sum_nanos(w) <= MaxClock * Quantum}

CalcInit ==
    /\ window \in Windows
    /\ window_len = DEFAULT_WINDOW_LEN
    /\ last = Created + sum_nanos(window)
    /\ avg = FZero
    /\ min = FZero
    /\ max = FZero
    /\ borrow = -1
    /\ pc = "avg"
    /\ delta = 0
    /\ iters = 0
    /\ nticks = 0
    /\ hist = window
    /\ ret = NoRet
    /\ reads = <<>>
    /\ twin = NoTwin

CalcNext == tick_avg \/ tick_min \/ tick_max

CalcSpec == CalcInit /\ [][CalcNext]_vars

(***************************************************************************)
(* Two trackers side by side: the one under `Next` is built by default(),   *)
(* the second, kept in `twin`, by with_window_len(60).  Fps is not Sync     *)
(* (its state is in a RefCell), so the two are ticked by one thread: a      *)
(* tick of the second runs whole, between operations on the first.  It is   *)
(* fed, tick for tick, the clock readings the first one took.               *)
(***************************************************************************)

\* tick, lines 97-99: the eviction loop run to its exit.  As in the code it
\* has no exit for cap = 0; it is applied to trackers of capacity >= 1 only.
RECURSIVE evict(_, _)
evict(w, cap) == IF Len(w) + 1 > cap THEN evict(pop_front(w), cap) ELSE w

\* Fps::tick, lines 92-104, as one step on a tracker's fields.
tick_run(f, now) ==
    LET d == duration_since(now, f.last)
        w == push_back(evict(f.window, f.window_len), d)
    IN  [window_len |-> f.window_len, window |-> w, last |-> now,
         avg |-> calc_avg(w), min |-> calc_min(w), max |-> calc_max(w)]

PairInit ==
    /\ window_len = default.window_len
    /\ window = default.window
    /\ last = default.last
    /\ avg = default.avg
    /\ min = default.min
    /\ max = default.max
    /\ borrow = 0
    /\ pc = "idle"
    /\ delta = 0
    /\ iters = 0
    /\ nticks = 0
    /\ hist = <<>>
    /\ ret = NoRet
    /\ reads = <<>>
    /\ twin = [f |-> with_window_len(60), n |-> 0]

\* The second tracker's next tick, on the reading the first took for its
\* tick of the same number.
twin_tick ==
    /\ twin # NoTwin
    /\ pc = "idle"
    /\ twin.n < Len(reads)
    /\ twin' = [f |-> tick_run(twin.f, reads[twin.n + 1]), n |-> twin.n + 1]
    /\ UNCHANGED <<window_len, window, last, avg, min, max, borrow, pc, delta,
                   iters, nticks, hist, ret, reads>>

\* The first tracker's next tick, begun once the second has been fed every
\* reading taken so far.
pair_tick_begin ==
    /\ twin.n = nticks
    /\ tick_begin

PairNext ==
    \/ pair_tick_begin
    \/ tick_evict
    \/ tick_push
    \/ tick_avg
    \/ tick_min
    \/ tick_max
    \/ Fps_avg
    \/ Fps_min
    \/ Fps_max
    \/ twin_tick

PairSpec == PairInit /\ [][PairNext]_vars

(***************************************************************************)
(* Two trackers of one capacity with different histories: both are built at *)
(* the same time, the first is ticked at every clock reading taken, the     *)
(* second, kept in `twin` with the deltas it measured, misses the first     *)
(* reading and is ticked at every later one.  Their first deltas differ and *)
(* so does the number of their ticks; their later deltas agree.  avg(),    *)
(* min() and max() return the cached fields and change nothing, so the      *)
(* fields themselves are compared and the accessors are left out.           *)
(***************************************************************************)
SkipInit ==
    \E n \in 1..MaxCap :
        /\ window_len = with_window_len(n).window_len
        /\ window = with_window_len(n).window
        /\ last = with_window_len(n).last
        /\ avg = with_window_len(n).avg
        /\ min = with_window_len(n).min
        /\ max = with_window_len(n).max
        /\ borrow = 0
        /\ pc = "idle"
        /\ delta = 0
        /\ iters = 0
        /\ nticks = 0
        /\ hist = <<>>
        /\ ret = NoRet
        /\ reads = <<>>
        /\ twin = [f |-> with_window_len(n), n |-> 0, h |-> <<>>]

\* The second tracker's next tick, on the reading after the one it missed.
twin_tick_skip ==
    /\ pc = "idle"
    /\ twin.n + 1 < Len(reads)
    /\ LET now == reads[twin.n + 2]
       IN  twin' = [f |-> tick_run(twin.f, now),
                    n |-> twin.n + 1,
                    h |-> Append(twin.h, duration_since(now, twin.f.last))]
    /\ UNCHANGED <<window_len, window, last, avg, min, max, borrow, pc, delta,
                   iters, nticks, hist, ret, reads>>

\* The first tracker's next tick, begun once the second has been ticked at
\* every reading it is to see.
skip_tick_begin ==
    /\ twin.n + 1 >= nticks
    /\ tick_begin

SkipNext ==
    \/ skip_tick_begin
    \/ tick_evict
    \/ tick_push
    \/ tick_avg
    \/ tick_min
    \/ tick_max
    \/ twin_tick_skip

SkipSpec == SkipInit /\ [][SkipNext]_vars

(***************************************************************************)
(* Notions the properties are stated with.                                  *)
(***************************************************************************)
\* A tick has completed on a tracker that retains samples.
Ticked == pc = "idle" /\ nticks >= 1 /\ window_len >= 1

Range(w) == {w[i] : i \in 1..Len(w)}

Smallest(w) == CHOOSE d \in Range(w) : \A e \in Range(w) : d <= e

Largest(w) == CHOOSE d \in Range(w) : \A e \in Range(w) : e <= d

Minimum(a, b) == IF a <= b THEN a ELSE b

LastN(h, n) == SubSeq(h, Len(h) - n + 1, Len(h))

\* 1.0 / x
Recip(x) == FDiv(FromNat(1), x)

\* The scenario of three ticks measuring 0.1 s, 0.2 s and 0.05 s.
Scenario == <<2 * Quantum, 4 * Quantum, Quantum>>

(***************************************************************************)
(* C1: in every reachable state, the states inside a tick included, the     *)
(* window holds at most window_len durations.                               *)
(***************************************************************************)
C1_WindowBounded == Len(window) <= window_len

\* a tick that has evicted and is about to append
C1_Witness == pc = "push" /\ iters = 1 /\ window_len >= 2
              /\ Len(window) = window_len - 1

(***************************************************************************)
(* C2: with capacity C >= 1, after N completed ticks the window holds       *)
(* exactly min(N, C) durations.                                             *)
(***************************************************************************)
C2_LengthIsMin ==
    (pc = "idle" /\ window_len >= 1) => Len(window) = Minimum(nticks, window_len)

\* twice as many ticks as the capacity
C2_Witness == pc = "idle" /\ window_len = 2 /\ nticks = 4 /\ Len(window) = 2

(***************************************************************************)
(* C3: with capacity C >= 1, after N completed ticks the window is the      *)
(* sequence of the last min(N, C) measured deltas, oldest first.            *)
(***************************************************************************)
C3_WindowIsRecentDeltas ==
    (pc = "idle" /\ window_len >= 1)
        => window = LastN(hist, Minimum(nticks, window_len))

\* the first delta has been evicted and the retained ones are all different
C3_Witness ==
    /\ pc = "idle" /\ window_len = 3 /\ nticks = 4
    /\ Cardinality(Range(hist)) = 4
    /\ window = Tail(hist)

(***************************************************************************)
(* C4 (as amended): after at least one completed tick, capacity >= 1, the   *)
(* cached statistics and what the accessors return are the statistics of    *)
(* the current window: avg is 1 / (sum of the seconds / count), min is      *)
(* 1 / seconds of the largest duration, max is 1 / seconds of the smallest  *)
(* duration; on the scenario max is 20, min is 5 and avg is the f64         *)
(* 1 / ((0.1 + 0.2 + 0.05) / 3), which lies strictly between 8.5714 and     *)
(* 8.5715.                                                                  *)
(***************************************************************************)
StatsOfWindow ==
    /\ avg = Recip(FDiv(sum_secs(window), FromNat(Len(window))))
    /\ min = Recip(as_secs_f64(Largest(window)))
    /\ max = Recip(as_secs_f64(Smallest(window)))

ReturnsCached ==
    /\ ret.op = "avg" => ret.val = avg
    /\ ret.op = "min" => ret.val = min
    /\ ret.op = "max" => ret.val = max

ScenarioStats ==
    /\ max = FromNat(20)
    /\ min = FromNat(5)
    /\ FLt(FDiv(FromNat(85714), FromNat(10000)), avg)
    /\ FLt(avg, FDiv(FromNat(85715), FromNat(10000)))

C4_StatsDescribeWindow ==
    Ticked => /\ StatsOfWindow
              /\ ReturnsCached
              /\ (window = Scenario => ScenarioStats)

C4_Witness == Ticked /\ window_len = 3 /\ window = Scenario /\ ret.op = "avg"

\* C4 as stated: the same, with avg on the scenario equal to 3 / 0.35.
C4_Original ==
    Ticked => /\ StatsOfWindow
              /\ ReturnsCached
              /\ (window = Scenario =>
                    /\ max = FromNat(20)
                    /\ min = FromNat(5)
                    /\ avg = FDiv(FromNat(3), FDiv(FromNat(35), FromNat(100))))

(***************************************************************************)
(* C5: a tick completes, whatever the capacity: the eviction loop exits     *)
(* after finitely many iterations.  The loop is deterministic and its only  *)
(* state is the window, so it exits exactly if every iteration that does    *)
(* not leave the loop shortens the window.                                  *)
(***************************************************************************)
C5_TickTerminates ==
    [][(pc = "evict" /\ pc' = "evict") => Len(window') < Len(window)]_vars

(***************************************************************************)
(* C6: on a tracker of capacity 0 every tick completes, leaving the window  *)
(* empty and the statistics of the empty window stored.  The window of      *)
(* such a tracker is empty when the loop is entered, so the tick completes  *)
(* exactly if the loop exits on finding the window empty.                   *)
(***************************************************************************)
C6_ZeroCapacityTick ==
    [][/\ (window_len = 0 /\ pc = "evict" /\ window = <<>>) => pc' # "evict"
       /\ (window_len = 0 /\ pc # "idle" /\ pc' = "idle")
            => /\ window' = <<>>
               /\ avg' = calc_avg(<<>>)
               /\ min' = calc_min(<<>>)
               /\ max' = calc_max(<<>>)]_vars

(***************************************************************************)
(* C7: before any tick the window is empty, the three statistics are 0.0    *)
(* and every accessor call returns 0.0.                                     *)
(***************************************************************************)
C7_PreTickDefaults ==
    (pc = "idle" /\ nticks = 0)
        => /\ window = <<>>
           /\ avg = FZero /\ min = FZero /\ max = FZero
           /\ ret.val = FZero

\* an accessor has been called on a tracker built by default()
C7_Witness == nticks = 0 /\ pc = "idle" /\ ret.op = "min"
              /\ window_len = DEFAULT_WINDOW_LEN

(***************************************************************************)
(* C8 (as amended): after one or more completed ticks, capacity >= 1,       *)
(* min() <= max(), and over the durations behind them                       *)
(* smallest * len <= sum <= largest * len; avg() is within [min(), max()]   *)
(* only up to the rounding of the f64 sum, quotient and reciprocal.         *)
(***************************************************************************)
C8_MinMaxOrdered ==
    Ticked => /\ FLe(min, max)
              /\ min = Recip(as_secs_f64(iter_max(window).val))
              /\ max = Recip(as_secs_f64(iter_min(window).val))
              /\ iter_min(window).val * Len(window) <= sum_nanos(window)
              /\ sum_nanos(window) <= iter_max(window).val * Len(window)

\* equal durations whose rounded mean is not their common value
C8_Witness == Ticked /\ Len(window) = 3 /\ FLt(avg, min) /\ min = max

\* C8 as stated: min() <= avg() <= max().
C8_Original == Ticked => (FLe(min, avg) /\ FLe(avg, max))

(***************************************************************************)
(* C9: on the empty window calc_avg, calc_min and calc_max yield one and    *)
(* the same value.                                                          *)
(***************************************************************************)
C9_SameSentinel ==
    (pc = "idle" /\ window = <<>>) => (avg = min /\ min = max)

(***************************************************************************)
(* C10: when the window holds exactly one duration d after a tick, avg(),   *)
(* min() and max() are all 1 / d.                                           *)
(***************************************************************************)
C10_SingleSample ==
    (Ticked /\ Len(window) = 1)
        => /\ avg = Recip(as_secs_f64(window[1]))
           /\ min = avg
           /\ max = avg
           /\ ret.op # "none" => ret.val = avg

\* a capacity-1 tracker after its third tick, the newest delta non-zero
C10_Witness == Ticked /\ window_len = 1 /\ nticks = 3 /\ window[1] > 0
               /\ hist[1] # window[1] /\ ret.op = "max"

(***************************************************************************)
(* C11: avg(), min() and max() have no side effects.  A step taken between  *)
(* two ticks (the tracker idle before and after it) is an accessor call: it *)
(* leaves the window, the last-event time, the three cached statistics and  *)
(* the capacity as they were, and it returns the cached field, so that      *)
(* every read before the next tick returns what the earlier tick stored.    *)
(* The accessors never read the clock (lines 107-121), which may stand at   *)
(* any reading the next tick will take.  No step of any operation changes   *)
(* the capacity.                                                            *)
(***************************************************************************)
C11_ReadsLeaveStateAlone ==
    [][/\ window_len' = window_len
       /\ (pc = "idle" /\ pc' = "idle")
            => /\ UNCHANGED <<window, last, avg, min, max, hist, reads>>
               /\ ret'.op = "avg" => ret'.val = avg
               /\ ret'.op = "min" => ret'.val = min
               /\ ret'.op = "max" => ret'.val = max]_vars

\* max() read after a second tick that stored a finite maximum different
\* from the minimum
C11_Witness ==
    /\ pc = "idle"
    /\ nticks = 2
    /\ ret.op = "max"
    /\ ret.val = max
    /\ max.k = "fin"
    /\ min # max

(***************************************************************************)
(* C12: default() is equivalent to with_window_len(60).  Both start with    *)
(* capacity 60, an empty window and statistics 0.0, and whenever the two    *)
(* have completed the same number of ticks on the same clock readings,      *)
(* their windows are equal and avg(), min() and max() return equal values.  *)
(***************************************************************************)
C12_DefaultIsSixty ==
    /\ window_len = 60
    /\ twin.f.window_len = 60
    /\ (nticks = 0 /\ pc = "idle")
         => (window = <<>> /\ avg = FZero /\ min = FZero /\ max = FZero)
    /\ twin.n = 0
         => /\ twin.f.window = <<>>
            /\ twin.f.avg = FZero /\ twin.f.min = FZero /\ twin.f.max = FZero
    /\ (pc = "idle" /\ twin.n = nticks)
         => /\ twin.f.window = window
            /\ twin.f.avg = avg
            /\ twin.f.min = min
            /\ twin.f.max = max
            /\ twin.f.last = last
            /\ ret.op = "avg" => ret.val = twin.f.avg
            /\ ret.op = "min" => ret.val = twin.f.min
            /\ ret.op = "max" => ret.val = twin.f.max

\* both trackers after their third tick on the same three readings, the
\* clock having advanced by different amounts, avg() read from the first
C12_Witness ==
    /\ pc = "idle"
    /\ nticks = 3
    /\ twin.n = 3
    /\ Len(twin.f.window) = 3
    /\ twin.f.min # twin.f.max
    /\ ret.op = "avg"

(***************************************************************************)
(* C13: with capacity C >= 1, each tick removes at most one entry from the  *)
(* window, and it removes one exactly when the window holds C entries at    *)
(* the start of the tick; a tick on a window with fewer than C entries      *)
(* removes nothing.  `iters` counts the entries the tick in progress has    *)
(* removed, so the first test of the loop condition (iters = 0) sees the    *)
(* window as it was at the start of the tick.                               *)
(***************************************************************************)
C13_EvictsAtMostOne ==
    [][window_len >= 1
         => /\ Len(window') >= Len(window) - 1
            /\ Len(window') < Len(window)
                 <=> (pc = "evict" /\ iters = 0 /\ Len(window) = window_len)
            /\ Len(window') < Len(window)
                 => (window' = Tail(window) /\ iters' = 1)
            /\ (pc = "evict" /\ iters = 0 /\ Len(window) < window_len)
                 => (window' = window /\ pc' = "push" /\ iters' = 0)
            /\ iters' <= 1]_vars

\* a tick on a full window of capacity 3 that has removed one entry and
\* appended the new one
C13_Witness ==
    /\ pc = "avg"
    /\ window_len = 3
    /\ iters = 1
    /\ Len(window) = 3
    /\ window[1] # hist[Len(hist) - 3]

\* The order of the steps of one tick.
TickOrder ==
    {<<"idle", "evict">>, <<"evict", "push">>, <<"push", "avg">>,
     <<"avg", "min">>, <<"min", "max">>, <<"max", "idle">>}

(***************************************************************************)
(* C14: within every tick on a tracker of capacity >= 1 exactly one         *)
(* duration is appended, and it is appended before the three statistics are *)
(* recomputed.  The steps of a tick follow TickOrder, so the append step is *)
(* taken once per tick, it is the only step that lengthens the window, and  *)
(* the three calc_* steps come after it: they run on the window it left,    *)
(* which is not empty, and the average stored is never the NaN of 0/0.      *)
(***************************************************************************)
C14_AppendThenRecompute ==
    [][window_len >= 1
         => /\ pc' # pc => <<pc, pc'>> \in TickOrder
            /\ Len(window') > Len(window) <=> pc = "push"
            /\ pc = "push" => (window' = Append(window, delta) /\ pc' = "avg")
            /\ pc \in {"avg", "min", "max"}
                 => (window # <<>> /\ window' = window /\ pc' # pc)
            /\ avg'.k # "nan" /\ min'.k # "nan" /\ max'.k # "nan"]_vars

\* the first tick taken at the very reading of the construction: the one
\* duration appended is zero and the average computed from it is 1/0
C14_Witness ==
    /\ pc = "min"
    /\ window_len >= 1
    /\ nticks = 0
    /\ window = <<0>>
    /\ avg = FInf

\* The clock reading that preceded the latest one: the previous tick's, or
\* the construction's.
PrevReading == IF Len(reads) <= 1 THEN Created ELSE reads[Len(reads) - 1]

(***************************************************************************)
(* C15: each tick measures delta = now - (last before the tick), where now  *)
(* is the tick's clock reading, sets last to now and holds it there, and    *)
(* the duration it appends is that delta.  The clock being non-decreasing   *)
(* (Readings), every duration placed in the window is >= 0, it is 0 exactly *)
(* when the clock did not advance, and last never decreases.                *)
(***************************************************************************)
C15_DeltaIsElapsed ==
    [][/\ last' >= last
       /\ (pc = "idle" /\ pc' = "evict")
            => /\ Len(reads') = Len(reads) + 1
               /\ last' = reads'[Len(reads')]
               /\ delta' = last' - last
               /\ delta' >= 0
               /\ delta' = 0 <=> last' = last
       /\ pc # "idle" => (last' = last /\ delta' = delta /\ reads' = reads)
       /\ pc = "push"
            => /\ window' = Append(window, delta)
               /\ delta = last - PrevReading
               /\ last = reads[Len(reads)]
       /\ \A i \in DOMAIN window' : window'[i] >= 0]_vars

\* a second tick taken at the reading of the first, which had advanced: the
\* duration it appended is zero, after a non-zero one
C15_Witness ==
    /\ pc = "avg"
    /\ Len(reads) = 2
    /\ reads[1] > Created
    /\ reads[2] = reads[1]
    /\ window = <<reads[1], 0>>
    /\ last = reads[2]

(***************************************************************************)
(* C16: an evicted delay has no remaining influence on the statistics.  For *)
(* capacity C >= 1, whenever two trackers have each completed at least C    *)
(* ticks and their histories agree on the last C measured deltas, their     *)
(* avg(), min() and max() are identical, whatever the earlier deltas were   *)
(* and however many there were; and the three values of a tracker are those *)
(* computed from its last C deltas alone, so that after C + 1 ticks the     *)
(* first delta has no part in them.                                         *)
(***************************************************************************)
C16_EvictedHasNoInfluence ==
    (pc = "idle" /\ nticks >= window_len)
        => /\ avg = calc_avg(LastN(hist, window_len))
           /\ min = calc_min(LastN(hist, window_len))
           /\ max = calc_max(LastN(hist, window_len))
           /\ (/\ twin.n >= window_len
               /\ LastN(twin.h, window_len) = LastN(hist, window_len))
                => /\ twin.f.avg = avg
                   /\ twin.f.min = min
                   /\ twin.f.max = max

\* capacity 2: the first tracker after its fourth tick, the second after
\* its third; their first deltas differ, their last two agree and are not
\* equal to one another, and both first deltas (evicted) would have changed
\* the minimum had they stayed in the window
C16_Witness ==
    /\ pc = "idle"
    /\ window_len = 2
    /\ nticks = 4
    /\ twin.n = 3
    /\ hist[1] # twin.h[1]
    /\ LastN(twin.h, 2) = LastN(hist, 2)
    /\ window[1] # window[2]
    /\ hist[1] > Largest(window)
    /\ twin.h[1] > Largest(window)
    /\ FLt(calc_min(hist), min)

\* The clock reading that immediately preceded the oldest retained sample,
\* after nticks completed ticks: the construction time, or the reading of
\* tick nticks - window_len.
ReadingBeforeOldest ==
    IF nticks <= window_len THEN Created ELSE reads[nticks - window_len]

(***************************************************************************)
(* C17: the durations in the window (whole nanoseconds) sum to a clock      *)
(* span.  After N >= 1 completed ticks with capacity C >= 1 the sum is the  *)
(* last-event time, which is the reading of tick N, minus the reading that  *)
(* immediately preceded the oldest retained sample: the construction time   *)
(* while N <= C, the reading of tick N - C once N > C.                      *)
(***************************************************************************)
C17_SumTelescopes ==
    Ticked
        => /\ last = reads[nticks]
           /\ sum_nanos(window) = last - ReadingBeforeOldest
           /\ nticks <= window_len => sum_nanos(window) = last - Created
           /\ nticks = 1 => window = <<reads[1] - Created>>

\* capacity 2 after four ticks at four different readings, the first of
\* them later than the construction
C17_Witness ==
    /\ pc = "idle"
    /\ window_len = 2
    /\ nticks = 4
    /\ Created < reads[1]
    /\ reads[1] < reads[2]
    /\ reads[2] < reads[3]
    /\ reads[3] < reads[4]
    /\ sum_nanos(window) = reads[4] - reads[2]

(***************************************************************************)
(* C18: a tick is atomic with respect to the accessors.  The exclusive      *)
(* borrow (borrow = -1) is held from the step that changes last until the   *)
(* step that stores the third statistic, every change of the window and of  *)
(* the statistics is made under it, and it is released by the step that     *)
(* returns from tick and by no other.  Between operations the cell is not   *)
(* borrowed, so neither borrow_mut() in tick nor borrow() in an accessor    *)
(* meets a conflict, and what an accessor returns after a tick is the      *)
(* statistic of the window as it is when the accessor is called, never one  *)
(* of an older window.                                                      *)
(***************************************************************************)
C18_TickIsAtomic ==
    /\ [](ret # NoRet
            => /\ pc = "idle"
               /\ borrow = 0
               /\ (nticks >= 1 /\ ret.op = "avg")
                    => ret.val = calc_avg(window)
               /\ (nticks >= 1 /\ ret.op = "min")
                    => ret.val = calc_min(window)
               /\ (nticks >= 1 /\ ret.op = "max")
                    => ret.val = calc_max(window))
    /\ [][/\ borrow' = -1 <=> pc' # "idle"
          /\ last' # last => (borrow = 0 /\ borrow' = -1)
          /\ (window' # window \/ avg' # avg \/ min' # min \/ max' # max)
               => borrow = -1
          /\ (borrow = -1 /\ borrow' # -1)
               => (pc = "max" /\ pc' = "idle" /\ borrow' = 0)
          /\ (pc = "idle" /\ pc' = "evict") => borrow = 0
          /\ ret' # ret => (pc = "idle" /\ borrow = 0)]_vars

\* min() called on a tracker of capacity 3 after its third tick, the three
\* statistics all different
C18_Witness ==
    /\ pc = "idle"
    /\ borrow = 0
    /\ window_len = 3
    /\ nticks = 3
    /\ ret.op = "min"
    /\ ret.val = calc_min(window)
    /\ avg # min
    /\ avg # max

====
